---- MODULE Spec2Model ----
(***************************************************************************)
(* Model of blesk: the frame codec of src/blesk/protocol.py and the        *)
(* session engine (class Blesk) of src/blesk/desk.py.                      *)
(*                                                                         *)
(* The session engine runs on an asyncio event loop.  The loop is modelled *)
(* by its FIFO queue of ready handles (variable ready): one step of the    *)
(* model runs the handle at the head of the queue up to the next point at  *)
(* which the coroutine really suspends.  The transport (bleak) is the      *)
(* environment: it delivers notifications, completes writes and reports    *)
(* disconnects.                                                            *)
(***************************************************************************)
EXTENDS Integers, Sequences, FiniteSets, TLC

(***************************************************************************)
(* Bounds of the model.                                                    *)
(***************************************************************************)
MaxInLen == 7
MaxEvents == 3
MaxDamage == 2

(***************************************************************************)
(* protocol.py: constants and command tables.                              *)
(***************************************************************************)
end_of_message == 126
header_length == 6
minimum_length == 6
maximum_length == 12
maximum_param_length == maximum_length - header_length

AddressDESK == <<241, 241>>
AddressHOST == <<242, 242>>

HostTypeValues == {1, 14, 23, 25, 29, 37, 38, 39, 40, 178}
DeskTypeValues == {1, 2, 3, 4, 5, 6, 7, 14, 27, 37, 38, 39, 40, 178}

HostType(v) == [type |-> "HostType", value |-> v]
DeskType(v) == [type |-> "DeskType", value |-> v]

HEIGHT == HostType(1)
UNITS == HostType(14)
SETTINGS == DeskType(7)
BLE_WAKE == DeskType(178)
GOTO_HEIGHT == DeskType(27)

Commands == {HostType(v) : v \in HostTypeValues} \cup {DeskType(v) : v \in DeskTypeValues}

Frame(command, params) == [command |-> command, params |-> params]

\* Frame.address
address(f) == IF f.command.type = "DeskType" THEN AddressDESK ELSE AddressHOST

RECURSIVE sum(_)
sum(s) == IF s = <<>> THEN 0 ELSE Head(s) + sum(Tail(s))

\* A slip in from_bytes: the terminator is not checked.
from_bytes_no_terminator_check(message_bytes) ==
  LET n == Len(message_bytes) IN
  IF n < 6 THEN [ok |-> FALSE, err |-> "Message too short"]
  ELSE IF n > 12 THEN [ok |-> FALSE, err |-> "Message too long"]
  ELSE IF n # message_bytes[4] + 6 THEN [ok |-> FALSE, err |-> "Incorrect message length"]
  ELSE IF message_bytes[n - 1] # sum(SubSeq(message_bytes, 3, n - 2)) % 256
       THEN [ok |-> FALSE, err |-> "Checksum does not match"]
  ELSE IF SubSeq(message_bytes, 1, 2) \notin {AddressDESK, AddressHOST}
       THEN [ok |-> FALSE, err |-> "not a valid Address"]
  ELSE IF SubSeq(message_bytes, 1, 2) = AddressDESK
       THEN IF message_bytes[3] \in DeskTypeValues
            THEN [ok |-> TRUE, frame |-> Frame(DeskType(message_bytes[3]), SubSeq(message_bytes, 5, n - 2))]
            ELSE [ok |-> FALSE, err |-> "not a valid DeskType"]
       ELSE IF message_bytes[3] \in HostTypeValues
            THEN [ok |-> TRUE, frame |-> Frame(HostType(message_bytes[3]), SubSeq(message_bytes, 5, n - 2))]
            ELSE [ok |-> FALSE, err |-> "not a valid HostType"]

\* A slip in from_bytes: the checksum is checked before the terminator.
from_bytes_checksum_first(message_bytes) ==
  LET n == Len(message_bytes) IN
  IF n < 6 THEN [ok |-> FALSE, err |-> "Message too short"]
  ELSE IF n > 12 THEN [ok |-> FALSE, err |-> "Message too long"]
  ELSE IF n # message_bytes[4] + 6 THEN [ok |-> FALSE, err |-> "Incorrect message length"]
  ELSE IF message_bytes[n - 1] # sum(SubSeq(message_bytes, 3, n - 2)) % 256
       THEN [ok |-> FALSE, err |-> "Checksum does not match"]
  ELSE IF message_bytes[n] # end_of_message THEN [ok |-> FALSE, err |-> "Message not terminated correctly"]
  ELSE IF SubSeq(message_bytes, 1, 2) \notin {AddressDESK, AddressHOST}
       THEN [ok |-> FALSE, err |-> "not a valid Address"]
  ELSE IF SubSeq(message_bytes, 1, 2) = AddressDESK
       THEN IF message_bytes[3] \in DeskTypeValues
            THEN [ok |-> TRUE, frame |-> Frame(DeskType(message_bytes[3]), SubSeq(message_bytes, 5, n - 2))]
            ELSE [ok |-> FALSE, err |-> "not a valid DeskType"]
       ELSE IF message_bytes[3] \in HostTypeValues
            THEN [ok |-> TRUE, frame |-> Frame(HostType(message_bytes[3]), SubSeq(message_bytes, 5, n - 2))]
            ELSE [ok |-> FALSE, err |-> "not a valid HostType"]

\* Frame.from_bytes: the checks in the order of the code; the result is
\* either a frame or the exception that is raised.
from_bytes(message_bytes) ==
  LET n == Len(message_bytes) IN
  IF n < 6 THEN [ok |-> FALSE, err |-> "Message too short"]
  ELSE IF n > 12 THEN [ok |-> FALSE, err |-> "Message too long"]
  ELSE IF n # message_bytes[4] + 6 THEN [ok |-> FALSE, err |-> "Incorrect message length"]
  ELSE IF message_bytes[n] # end_of_message THEN [ok |-> FALSE, err |-> "Message not terminated correctly"]
  ELSE IF message_bytes[n - 1] # sum(SubSeq(message_bytes, 3, n - 2)) % 256
       THEN [ok |-> FALSE, err |-> "Checksum does not match"]
  ELSE IF SubSeq(message_bytes, 1, 2) \notin {AddressDESK, AddressHOST}
       THEN [ok |-> FALSE, err |-> "not a valid Address"]
  ELSE IF SubSeq(message_bytes, 1, 2) = AddressDESK
       THEN IF message_bytes[3] \in DeskTypeValues
            THEN [ok |-> TRUE, frame |-> Frame(DeskType(message_bytes[3]), SubSeq(message_bytes, 5, n - 2))]
            ELSE [ok |-> FALSE, err |-> "not a valid DeskType"]
       ELSE IF message_bytes[3] \in HostTypeValues
            THEN [ok |-> TRUE, frame |-> Frame(HostType(message_bytes[3]), SubSeq(message_bytes, 5, n - 2))]
            ELSE [ok |-> FALSE, err |-> "not a valid HostType"]

\* A slip in to_bytes: the checksum taken over the whole message, address
\* included, instead of msg[2:].
to_bytes_sum_all(f) ==
  LET length == Len(f.params)
      msg == address(f) \o <<f.command.value>> \o <<length>> \o f.params
  IN IF length > maximum_param_length
     THEN [ok |-> FALSE, err |-> "Parameter length longer than maximum"]
     ELSE [ok |-> TRUE, bytes |-> msg \o <<sum(msg) % 256>> \o <<end_of_message>>]

\* A slip in to_bytes: the length of the params is not checked.
to_bytes_unchecked(f) ==
  LET length == Len(f.params)
      msg == address(f) \o <<f.command.value>> \o <<length>> \o f.params
  IN [ok |-> TRUE, bytes |-> msg \o <<sum(SubSeq(msg, 3, Len(msg))) % 256>> \o <<end_of_message>>]

\* A slip in to_bytes: the checksum is not reduced modulo 0x100.
to_bytes_no_wrap(f) ==
  LET length == Len(f.params)
      msg == address(f) \o <<f.command.value>> \o <<length>> \o f.params
  IN IF length > maximum_param_length
     THEN [ok |-> FALSE, err |-> "Parameter length longer than maximum"]
     ELSE [ok |-> TRUE, bytes |-> msg \o <<sum(SubSeq(msg, 3, Len(msg)))>> \o <<end_of_message>>]

\* Frame.to_bytes
to_bytes(f) ==
  LET length == Len(f.params)
      msg == address(f) \o <<f.command.value>> \o <<length>> \o f.params
  IN IF length > maximum_param_length
     THEN [ok |-> FALSE, err |-> "Parameter length longer than maximum"]
     ELSE [ok |-> TRUE, bytes |-> msg \o <<sum(SubSeq(msg, 3, Len(msg))) % 256>> \o <<end_of_message>>]



(***************************************************************************)
(* Units and heights (protocol.py 25-27, 82-149).  The code computes with  *)
(* floats; here a height in millimetres is an integer and a height in      *)
(* inches is the exact fraction n / d, with d a multiple of 10.            *)
(***************************************************************************)
Units_MM == 0
Units_IN == 1

\* A slip in the enum: every byte but 0 is taken for inches.
Units_nonzero_is_in(v) == [ok |-> TRUE, unit |-> IF v = Units_MM THEN Units_MM ELSE Units_IN]

\* Units(v), the enum lookup: ValueError for a value that is no member
Units(v) ==
  IF v \in {Units_MM, Units_IN} THEN [ok |-> TRUE, unit |-> v]
                     ELSE [ok |-> FALSE, err |-> "not a valid Units"]

HeightMM(mm) == [cls |-> "HeightMM", mm |-> mm]
HeightIn(n, d) == [cls |-> "HeightIn", n |-> n, d |-> d]

\* HeightData.decode_as: the two bytes big-endian, as millimetres or as
\* tenths of an inch divided by 10
decode_as(data, unit) ==
  IF unit = Units_MM THEN HeightMM(data[1] * 256 + data[2])
               ELSE HeightIn(data[1] * 256 + data[2], 10)

\* HeightMM.as_in: HeightIn(self.mm * 0.0393701)
as_in(h) == HeightIn(h.mm * 393701, 10000000)

\* HeightMM.encode: int(mm / 0x100), int(mm % 0x100)
HeightMM_encode(h) == <<h.mm \div 256, h.mm % 256>>

\* A slip in HeightIn.encode: the inches are not scaled to tenths.
HeightIn_encode_unscaled(h) ==
  LET inches == h.n \div h.d
  IN <<inches \div 256, inches % 256>>

\* HeightIn.encode: int(inches * 10 / 0x100), int(inches * 10 % 0x100)
HeightIn_encode(h) ==
  LET tenths == h.n \div (h.d \div 10)
  IN <<tenths \div 256, tenths % 256>>

\* HeightMM.as_float returns self.mm (protocol.py 105-107); HeightIn.as_float
\* returns self.mm as well (protocol.py 130-132), an attribute HeightIn does
\* not have, so that reading it raises AttributeError
as_float(h) ==
  IF h.cls = "HeightMM" THEN [ok |-> TRUE, value |-> h.mm]
                        ELSE [ok |-> FALSE, err |-> "AttributeError"]

\* HeightIn.as_mm: HeightMM(self.inches / 0.0393701), the millimetres held
\* as the exact fraction n / d (protocol.py 134-136); HeightMM.as_mm is self
as_mm(h) ==
  IF h.cls = "HeightMM" THEN h
  ELSE HeightMM([n |-> h.n * (10000000 \div h.d), d |-> 393701])

\* the encode property of either class
encode(h) == IF h.cls = "HeightMM" THEN HeightMM_encode(h) ELSE HeightIn_encode(h)

\* Preset (protocol.py 19-23) and the goto column of PresetDict
\* (protocol.py 75-80): MOVE_1 .. MOVE_4
Preset == 1 .. 4

\* A slip in the table: presets 3 and 4 given the PROGMEM commands.
PresetDict_goto_progmem(p) ==
  IF p = 1 THEN DeskType(5) ELSE IF p = 2 THEN DeskType(6)
  ELSE IF p = 3 THEN DeskType(37) ELSE DeskType(38)

PresetDict_goto(p) ==
  IF p = 1 THEN DeskType(5) ELSE IF p = 2 THEN DeskType(6)
  ELSE IF p = 3 THEN DeskType(39) ELSE DeskType(40)

(***************************************************************************)
(* State.                                                                  *)
(*   Codec harness: cframe, cbytes, cback, cpc.                            *)
(*   Session engine (desk.py, class Blesk):                                *)
(*     listeners         self._listeners, the registered queues in order   *)
(*     connection_cache  self._connection_cache: command -> the datagram   *)
(*                       whose Frame object is stored (0: no entry)        *)
(*     queue, shut       the items of each asyncio.Queue, and whether it   *)
(*                       has been shut down                                *)
(*     owner             the get_frame task that created the queue (0: a   *)
(*                       direct caller of subscribe)                       *)
(*     task, gf          the query coroutines and their get_frame tasks    *)
(*     dgs, cb           the datagrams notified so far and the state of    *)
(*                       the _data_callback task of each                   *)
(*     ready             the event loop's FIFO of ready handles            *)
(*     written           the transport writes started so far               *)
(*     conn              how far connect() has got: "new", "connecting"    *)
(*                       (in BleakClient.connect), "subscribing" (in       *)
(*                       start_notify), "hooked" (the hook is registered   *)
(*                       and connect is ready to go on), "waking" (in the  *)
(*                       write of the wake frame), "connected"             *)
(*     calls             the calls connect() has made to the transport     *)
(*     unsub             how the last call of unsubscribe by a caller      *)
(*                       other than get_frame ended                        *)
(*   History, read by the properties only:                                 *)
(*     bcast[d]      the queues a put task was created for when d was      *)
(*                   broadcast                                             *)
(*     recv[c]       every datagram enqueued on c so far                   *)
(*     failedPut     the (d, c) whose put raised QueueShutDown             *)
(*     pendingAt[d]  the queries whose write had started and whose wait    *)
(*                   had not ended when d was broadcast                    *)
(*     events        the events of the environment so far                  *)
(*     epoch, procEpoch   the number of disconnect events so far, and its  *)
(*                   value when d was cached                               *)
(***************************************************************************)
VARIABLES cframe, cbytes, cback, cpc, hgt, api, events, conn, calls, unsub,
          listeners, connection_cache, queue, shut, owner,
          task, gf, dgs, cb, ready, written,
          bcast, recv, failedPut, pendingAt, epoch, procEpoch

apiVars == <<hgt, api>>
codecVars == <<cframe, cbytes, cback, cpc, apiVars>>
sessionVars == <<events, conn, calls, unsub, listeners, connection_cache, queue, shut, owner, task, gf, dgs, cb,
                 ready, written, bcast, recv, failedPut, pendingAt, epoch, procEpoch>>
vars == <<cframe, cbytes, cback, cpc, hgt, api, events, conn, calls, unsub,
          listeners, connection_cache, queue, shut, owner,
          task, gf, dgs, cb, ready, written,
          bcast, recv, failedPut, pendingAt, epoch, procEpoch>>

Tasks == 1 .. MaxEvents
Dgs == 1 .. MaxEvents
Chans == 1 .. MaxEvents

(***************************************************************************)
(* Inputs.                                                                 *)
(***************************************************************************)
\* the parameter bytes the codec harness draws from
ParamBytes == {0, 126, 255}

RECURSIVE SeqsUpTo(_, _)
SeqsUpTo(S, n) ==
  IF n = 0 THEN {<<>>}
  ELSE LET shorter == SeqsUpTo(S, n - 1)
       IN shorter \cup {Append(s, x) : s \in {r \in shorter : Len(r) = n - 1}, x \in S}

\* the datagrams the transport notifies: two valid host frames, one that is
\* too short and one whose command is not in the table
Height750 == <<242, 242, 1, 2, 2, 238, 243, 126>>
UnitsMM == <<242, 242, 14, 1, 0, 15, 126>>
TooShortDg == <<242, 242, 1>>
UnknownCommandDg == <<242, 242, 2, 0, 2, 126>>
Datagrams == {Height750, UnitsMM, TooShortDg, UnknownCommandDg}

\* the characteristic the desk notifies on, and another one
desk_attribute_read == "0000fe62-0000-1000-8000-00805f9b34fb"
desk_attribute_write == "0000fe61-0000-1000-8000-00805f9b34fb"

\* the notifications of the transport: each datagram from the read
\* characteristic, and a valid frame from another source
Notifications ==
  {[sender |-> desk_attribute_read, data |-> b] : b \in Datagrams}
  \cup {[sender |-> desk_attribute_write, data |-> Height750]}

\* the queries the callers issue: get_units (desk.py 142) and
\* get_height_mm (desk.py 150)
Requests == {[send |-> Frame(SETTINGS, <<>>), receive |-> UNITS],
             [send |-> Frame(BLE_WAKE, <<>>), receive |-> HEIGHT]}

\* a query whose frame has more params than to_bytes accepts
TooManyParams == <<0, 0, 0, 0, 0, 0, 0>>
LongRequest == [send |-> Frame(GOTO_HEIGHT, TooManyParams), receive |-> HEIGHT]

\* the calls of query: each request with and without from_cache, and the
\* long one past the cache
Calls ==
  {[send |-> r.send, receive |-> r.receive, from_cache |-> fc] : r \in Requests, fc \in BOOLEAN}
  \cup {[send |-> LongRequest.send, receive |-> LongRequest.receive, from_cache |-> FALSE]}

(***************************************************************************)
(* Helpers.                                                                *)
(***************************************************************************)
Handle(h, a, b) == [h |-> h, a |-> a, b |-> b]

Range(s) == {s[i] : i \in 1 .. Len(s)}

\* list.remove(x): removes the first occurrence
RECURSIVE Remove(_, _)
Remove(s, x) ==
  IF s = <<>> THEN <<>>
  ELSE IF Head(s) = x THEN Tail(s)
  ELSE <<Head(s)>> \o Remove(Tail(s), x)

\* the Frame decoded from datagram d, and whether the callback gets
\* as far as a frame
FrameOf(d) == from_bytes(dgs[d].data).frame
Valid(d) == dgs[d].sender = desk_attribute_read /\ from_bytes(dgs[d].data).ok

NoTask == [pc |-> "idle", send |-> Frame(BLE_WAKE, <<>>), receive |-> HEIGHT,
           from_cache |-> TRUE, result |-> 0, path |-> "none", write |-> "none",
           err |-> "none", epoch |-> 0]
NoGf == [pc |-> "none", chan |-> 0, result |-> 0, cancel |-> FALSE]
NoCb == [pc |-> "none", err |-> FALSE]

NoHgt == [pc |-> "off", data |-> <<0, 0>>, unit |-> Units_MM, value |-> HeightMM(0),
          back |-> <<>>, float |-> [ok |-> FALSE, err |-> "none"]]
NoApi == [pc |-> "idle", op |-> "none", arg |-> 0, start |-> 0, seen |-> 0, frame |-> 0,
          result |-> "none", err |-> "none"]
ApiIdle == hgt = NoHgt /\ api = NoApi

CodecIdle ==
  /\ cframe = Frame(HEIGHT, <<>>)
  /\ cbytes = [ok |-> FALSE, err |-> "none"]
  /\ cback = [ok |-> FALSE, err |-> "none"]
  /\ cpc = "off"
  /\ ApiIdle

\* Blesk.__init__: no listeners, an empty cache
SessionInit ==
  /\ events = 0
  /\ conn = "new"
  /\ calls = <<>>
  /\ unsub = "none"
  /\ listeners = <<>>
  /\ connection_cache = [k \in Commands |-> 0]
  /\ queue = [c \in Chans |-> <<>>]
  /\ shut = [c \in Chans |-> FALSE]
  /\ owner = <<>>
  /\ task = [t \in Tasks |-> NoTask]
  /\ gf = [t \in Tasks |-> NoGf]
  /\ dgs = <<>>
  /\ cb = [d \in Dgs |-> NoCb]
  /\ ready = <<>>
  /\ written = <<>>
  /\ bcast = [d \in Dgs |-> <<>>]
  /\ recv = [c \in Chans |-> <<>>]
  /\ failedPut = {}
  /\ pendingAt = [d \in Dgs |-> {}]
  /\ epoch = 0
  /\ procEpoch = [d \in Dgs |-> 0]

(***************************************************************************)
(* Codec harness: a frame is drawn, encoded and the bytes decoded again.   *)
(***************************************************************************)
CodecInit ==
  /\ cframe \in {Frame(c, p) : c \in Commands, p \in SeqsUpTo(ParamBytes, MaxInLen)}
  /\ cbytes = [ok |-> FALSE, err |-> "none"]
  /\ cback = [ok |-> FALSE, err |-> "none"]
  /\ cpc = "frame"
  /\ ApiIdle
  /\ SessionInit

Encode ==
  /\ cpc = "frame"
  /\ cbytes' = to_bytes(cframe)
  /\ cpc' = "encoded"
  /\ UNCHANGED <<cframe, cback, sessionVars, apiVars>>

Decode ==
  /\ cpc = "encoded"
  /\ cbytes.ok
  /\ cback' = from_bytes(cbytes.bytes)
  /\ cpc' = "decoded"
  /\ UNCHANGED <<cframe, cbytes, sessionVars, apiVars>>

CodecNext == Encode \/ Decode

SpecCodec == CodecInit /\ [][CodecNext]_vars

(***************************************************************************)
(* Decode harness: a well-formed datagram is drawn, up to MaxDamage times  *)
(* a byte of it is overwritten, or it is cut short, or a byte is added at  *)
(* its end, and the result is decoded.                                     *)
(***************************************************************************)
Unknown17 == <<242, 242, 23, 0, 23, 126>>
WakeDg == <<241, 241, 178, 0, 178, 126>>
Height6Params == <<242, 242, 1, 6, 0, 126, 255, 0, 126, 255, 1, 126>>
WellFormedDatagrams == {Height750, UnitsMM, Unknown17, WakeDg, Height6Params}

\* the values a damaged or added byte takes
DamageBytes == {0, 1, 23, 126, 241, 242}

DecodeInit ==
  /\ cframe = Frame(HEIGHT, <<>>)
  /\ cbytes \in {[ok |-> TRUE, bytes |-> b, damage |-> 0] : b \in WellFormedDatagrams}
  /\ cback = [ok |-> FALSE, err |-> "none"]
  /\ cpc = "raw"
  /\ ApiIdle
  /\ SessionInit

Overwrite(i, v) ==
  /\ cpc = "raw"
  /\ cbytes.damage < MaxDamage
  /\ i \in 1 .. Len(cbytes.bytes)
  /\ cbytes' = [cbytes EXCEPT !.bytes[i] = v, !.damage = @ + 1]
  /\ UNCHANGED <<cframe, cback, cpc, sessionVars, apiVars>>

Cut(n) ==
  /\ cpc = "raw"
  /\ cbytes.damage < MaxDamage
  /\ n < Len(cbytes.bytes)
  /\ cbytes' = [cbytes EXCEPT !.bytes = SubSeq(@, 1, n), !.damage = @ + 1]
  /\ UNCHANGED <<cframe, cback, cpc, sessionVars, apiVars>>

Extend(v) ==
  /\ cpc = "raw"
  /\ cbytes.damage < MaxDamage
  /\ Len(cbytes.bytes) <= maximum_length
  /\ cbytes' = [cbytes EXCEPT !.bytes = Append(@, v), !.damage = @ + 1]
  /\ UNCHANGED <<cframe, cback, cpc, sessionVars, apiVars>>

DecodeRaw ==
  /\ cpc = "raw"
  /\ cback' = from_bytes(cbytes.bytes)
  /\ cpc' = "parsed"
  /\ UNCHANGED <<cframe, cbytes, sessionVars, apiVars>>

\* the frame that from_bytes returned is encoded again
EncodeAgain ==
  /\ cpc = "parsed"
  /\ cback.ok
  /\ cback' = [ok |-> TRUE, frame |-> cback.frame, again |-> to_bytes(cback.frame)]
  /\ cpc' = "again"
  /\ UNCHANGED <<cframe, cbytes, sessionVars, apiVars>>

DecodeNext ==
  \/ \E i \in 1 .. maximum_length + 1, v \in DamageBytes : Overwrite(i, v)
  \/ \E n \in 0 .. maximum_length : Cut(n)
  \/ \E v \in DamageBytes : Extend(v)
  \/ DecodeRaw
  \/ EncodeAgain

SpecDecode == DecodeInit /\ [][DecodeNext]_vars

(***************************************************************************)
(* Height harness: two bytes are drawn, decoded in a unit and the height   *)
(* encoded again.                                                          *)
(***************************************************************************)
HeightBytes == {0, 1, 2, 127, 128, 255}

HeightInit ==
  /\ cframe = Frame(HEIGHT, <<>>)
  /\ cbytes = [ok |-> FALSE, err |-> "none"]
  /\ cback = [ok |-> FALSE, err |-> "none"]
  /\ cpc = "off"
  /\ hgt \in {[pc |-> "raw", data |-> <<hi, lo>>, unit |-> u,
               value |-> HeightMM(0), back |-> <<>>,
               float |-> [ok |-> FALSE, err |-> "none"]] :
                 hi \in HeightBytes, lo \in HeightBytes, u \in {Units_MM, Units_IN}}
  /\ api = NoApi
  /\ SessionInit

DecodeHeight ==
  /\ hgt.pc = "raw"
  /\ hgt' = [hgt EXCEPT !.pc = "decoded", !.value = decode_as(hgt.data, hgt.unit)]
  /\ UNCHANGED <<cframe, cbytes, cback, cpc, api, sessionVars>>

EncodeHeight ==
  /\ hgt.pc = "decoded"
  /\ hgt' = [hgt EXCEPT !.pc = "encoded", !.back = encode(hgt.value)]
  /\ UNCHANGED <<cframe, cbytes, cback, cpc, api, sessionVars>>

ReadFloat ==
  /\ hgt.pc = "decoded"
  /\ hgt' = [hgt EXCEPT !.pc = "float", !.float = as_float(hgt.value)]
  /\ UNCHANGED <<cframe, cbytes, cback, cpc, api, sessionVars>>

HeightNext == DecodeHeight \/ EncodeHeight \/ ReadFloat

SpecHeight == HeightInit /\ [][HeightNext]_vars



(***************************************************************************)
(* Session engine.  Every action below that starts with Run runs the       *)
(* handle at the head of the ready queue; the others are the callers and   *)
(* the transport.                                                          *)
(***************************************************************************)
Next1(h) == ready # <<>> /\ Head(ready).h = h

\* The model follows the session for MaxEvents events of the environment:
\* queries called, datagrams notified, disconnects, failed writes,
\* cancellations, subscribe and unsubscribe calls of other callers.
Happens == events < MaxEvents /\ events' = events + 1

\* A caller starts a query as a task, as get_height_mm does:
\* asyncio.create_task(self.query(send=..., receive=...)).  The callers use
\* the desk once connect() has returned ("async with Blesk(...) as desk").
CallQuery(t, send, receive, from_cache) ==
  /\ Happens
  /\ conn = "connected"
  /\ task[t].pc = "idle"
  /\ \A u \in 1 .. t - 1 : task[u].pc # "idle"
  /\ task' = [task EXCEPT ![t] = [NoTask EXCEPT !.pc = "scheduled", !.send = send,
                                   !.receive = receive, !.from_cache = from_cache]]
  /\ ready' = Append(ready, Handle("query", t, 0))
  /\ UNCHANGED <<codecVars, conn, calls, unsub, listeners, connection_cache, queue, shut, owner, gf, dgs, cb,
                 written, bcast, recv, failedPut, pendingAt, epoch, procEpoch>>

\* A slip in query: the cache is never used.
cache_miss_always(q) == FALSE

\* A slip in the test: the from_cache flag is not looked at.
cache_hit_ignores_flag(q) == connection_cache[q.receive] # 0

\* query's test for answering from the cache (desk.py 113)
cache_hit(q) == q.from_cache /\ connection_cache[q.receive] # 0

\* query, up to its first suspension (desk.py 112-118).  On a cache hit it
\* returns.  Otherwise create_task(get_frame) only puts the new task on the
\* ready queue; send_frame then encodes the request and starts the write,
\* where the coroutine suspends.  When to_bytes raises, nothing is written
\* and the error ends the query; the get_frame task stays scheduled.
RunQuery ==
  /\ Next1("query")
  /\ LET t == Head(ready).a
         q == task[t]
         data == to_bytes(q.send)
     IN IF cache_hit(q)
        THEN /\ task' = [task EXCEPT ![t].pc = "done", ![t].path = "cache",
                                     ![t].epoch = epoch,
                                     ![t].result = connection_cache[q.receive]]
             /\ ready' = Tail(ready)
             /\ UNCHANGED <<gf, written>>
        ELSE /\ gf' = [gf EXCEPT ![t].pc = "scheduled"]
             /\ ready' = Append(Tail(ready), Handle("gf", t, 0))
             /\ IF data.ok
                THEN /\ written' = Append(written, [t |-> t, data |-> data.bytes])
                     /\ task' = [task EXCEPT ![t].pc = "writing", ![t].path = "wire",
                                             ![t].epoch = epoch]
                ELSE /\ task' = [task EXCEPT ![t].pc = "failed", ![t].path = "wire",
                                             ![t].err = data.err, ![t].epoch = epoch]
                     /\ UNCHANGED written
  /\ UNCHANGED <<codecVars, conn, calls, unsub, events, listeners, connection_cache, queue, shut, owner, dgs, cb,
                 bcast, recv, failedPut, pendingAt, epoch, procEpoch>>

\* The transport ends the write of query t: write_gatt_char returns or
\* raises, and the query task is made ready again.
WriteComplete(t, outcome) ==
  /\ task[t].pc = "writing"
  /\ IF outcome = "error" THEN Happens ELSE UNCHANGED events
  /\ task' = [task EXCEPT ![t].pc = "written", ![t].write = outcome]
  /\ ready' = Append(ready, Handle("query_wakeup", t, 0))
  /\ UNCHANGED <<codecVars, conn, calls, unsub, listeners, connection_cache, queue, shut, owner, gf, dgs, cb,
                 written, bcast, recv, failedPut, pendingAt, epoch, procEpoch>>

\* query resumed (desk.py 118-120): after the write, "return await
\* query_task"; or after get_frame has ended.
RunQueryWakeup ==
  /\ Next1("query_wakeup")
  /\ LET t == Head(ready).a IN
     /\ task' = [task EXCEPT ![t] =
          IF task[t].pc = "written" /\ task[t].write = "error"
          THEN [@ EXCEPT !.pc = "failed", !.err = "write failed"]
          ELSE IF task[t].pc = "written" /\ task[t].write = "cancelled"
               THEN [@ EXCEPT !.pc = "cancelled"]
          ELSE IF gf[t].pc = "done" THEN [@ EXCEPT !.pc = "done", !.result = gf[t].result]
          ELSE IF gf[t].pc = "cancelled" THEN [@ EXCEPT !.pc = "cancelled"]
          ELSE [@ EXCEPT !.pc = "awaiting"]]
  /\ ready' = Tail(ready)
  /\ UNCHANGED <<codecVars, conn, calls, unsub, events, listeners, connection_cache, queue, shut, owner, gf, dgs, cb,
                 written, bcast, recv, failedPut, pendingAt, epoch, procEpoch>>

\* subscribe (desk.py 75-80), as the new list of listeners and the new
\* queue's number
subscribe == [listeners |-> Append(listeners, Len(owner) + 1), q |-> Len(owner) + 1]

\* unsubscribe (desk.py 82-83)
unsubscribe(c) == Remove(listeners, c)

\* get_frame, first step (desk.py 96-102): subscribe, then wait on the
\* empty queue.  A task cancelled before its first step never runs.
RunGetFrame ==
  /\ Next1("gf")
  /\ LET t == Head(ready).a IN
     IF gf[t].cancel
     THEN /\ gf' = [gf EXCEPT ![t].pc = "cancelled"]
          /\ ready' = IF task[t].pc = "awaiting"
                      THEN Append(Tail(ready), Handle("query_wakeup", t, 0))
                      ELSE Tail(ready)
          /\ task' = IF task[t].pc = "awaiting" THEN [task EXCEPT ![t].pc = "resuming"]
                     ELSE task
          /\ UNCHANGED <<listeners, owner>>
     ELSE /\ listeners' = subscribe.listeners
          /\ owner' = Append(owner, t)
          /\ gf' = [gf EXCEPT ![t].pc = "getting", ![t].chan = subscribe.q]
          /\ ready' = Tail(ready)
          /\ UNCHANGED task
  /\ UNCHANGED <<codecVars, conn, calls, unsub, events, connection_cache, queue, shut, dgs, cb, written, bcast, recv,
                 failedPut, pendingAt, epoch, procEpoch>>

\* A slip in get_frame: the first item ends the wait whatever its kind.
FromFirst(items, kind) == items

\* the items of a queue from the first one of the kind on (empty: none)
RECURSIVE FromMatch(_, _)
FromMatch(items, kind) ==
  IF items = <<>> THEN <<>>
  ELSE IF FrameOf(Head(items)).command = kind THEN items
  ELSE FromMatch(Tail(items), kind)

\* get_frame resumed (desk.py 101-110): takes items off its queue until
\* one is of the kind, then unsubscribes, shuts the queue down and
\* returns; with no match it waits again on the emptied queue.  A
\* cancelled task gets CancelledError at "await q.get()" and ends there.
RunGetFrameWakeup ==
  /\ Next1("gf_wakeup")
  /\ LET t == Head(ready).a
         c == gf[t].chan
         rest == FromMatch(queue[c], task[t].receive)
         ends == gf[t].cancel \/ rest # <<>>
     IN
     /\ IF gf[t].cancel
        THEN /\ gf' = [gf EXCEPT ![t].pc = "cancelled"]
             /\ UNCHANGED <<listeners, queue, shut>>
        ELSE IF rest # <<>>
        THEN /\ gf' = [gf EXCEPT ![t].pc = "done", ![t].result = Head(rest)]
             /\ listeners' = unsubscribe(c)
             /\ queue' = [queue EXCEPT ![c] = <<>>]
             /\ shut' = [shut EXCEPT ![c] = TRUE]
        ELSE /\ gf' = [gf EXCEPT ![t].pc = "getting"]
             /\ queue' = [queue EXCEPT ![c] = <<>>]
             /\ UNCHANGED <<listeners, shut>>
     /\ IF ends /\ task[t].pc = "awaiting"
        THEN /\ task' = [task EXCEPT ![t].pc = "resuming"]
             /\ ready' = Append(Tail(ready), Handle("query_wakeup", t, 0))
        ELSE /\ ready' = Tail(ready)
             /\ UNCHANGED task
  /\ UNCHANGED <<codecVars, conn, calls, unsub, events, connection_cache, owner, dgs, cb, written, bcast, recv,
                 failedPut, pendingAt, epoch, procEpoch>>


\* The transport notifies a datagram: bleak starts _data_callback(sender,
\* data) as a task of its own for each notification.  It does so from the
\* moment start_notify has registered the callback.
Notify(n) ==
  /\ Happens
  /\ conn \in {"hooked", "waking", "connected"}
  /\ dgs' = Append(dgs, n)
  /\ cb' = [cb EXCEPT ![Len(dgs) + 1].pc = "scheduled"]
  /\ ready' = Append(ready, Handle("cb", Len(dgs) + 1, 0))
  /\ UNCHANGED <<codecVars, conn, calls, unsub, listeners, connection_cache, queue, shut, owner, task, gf,
                 written, bcast, recv, failedPut, pendingAt, epoch, procEpoch>>

\* A slip in _data_callback: "except ValueError" instead of "except
\* Exception", so that the plain Exceptions of from_bytes escape.
decode_failed_value_error_only(err) ==
  IF err \in {"not a valid Address", "not a valid DeskType", "not a valid HostType"}
  THEN "dropped" ELSE "raised"

\* _data_callback when from_bytes raises (desk.py 45-47): every Exception
\* is logged and the callback returns
decode_failed(err) == "dropped"

\* A slip in _valid_frame_callback: the cache rebuilt with the new entry alone.
cache_store_alone(frame, d) == [k \in Commands |-> IF k = frame.command THEN d ELSE 0]

\* _valid_frame_callback: self._connection_cache[frame.command] = frame
\* (desk.py 58)
cache_store(frame, d) == [connection_cache EXCEPT ![frame.command] = d]

\* the queries whose write has started and whose get_frame has not ended
WrittenAndWaiting ==
  {t \in Tasks : /\ \E i \in 1 .. Len(written) : written[i].t = t
                 /\ gf[t].pc \notin {"done", "cancelled"}}

\* A slip in _data_callback: the sender is not looked at.
unexpected_sender_never(uuid) == FALSE

\* _data_callback's test of the sender (desk.py 36)
unexpected_sender(uuid) == uuid # desk_attribute_read

\* _data_callback with _valid_frame_callback, up to the suspension at the
\* end of the TaskGroup block (desk.py 34-73).  Data from another sender
\* is ignored and a datagram that does not decode is dropped.  Otherwise the frame is cached and one task
\* "l.put(frame)" is created for every listener; nothing is enqueued yet.
\* With no listener the TaskGroup has nothing to wait for and the callback
\* returns.
RunDataCallback ==
  /\ Next1("cb")
  /\ LET d == Head(ready).a
         r == from_bytes(dgs[d].data)
     IN
     /\ IF unexpected_sender(dgs[d].sender)
        THEN /\ cb' = [cb EXCEPT ![d].pc = "ignored"]
             /\ ready' = Tail(ready)
             /\ UNCHANGED <<connection_cache, bcast, pendingAt, procEpoch>>
        ELSE IF ~r.ok
        THEN /\ cb' = [cb EXCEPT ![d].pc = decode_failed(r.err)]
             /\ ready' = Tail(ready)
             /\ UNCHANGED <<connection_cache, bcast, pendingAt, procEpoch>>
        ELSE /\ connection_cache' = cache_store(r.frame, d)
             /\ cb' = [cb EXCEPT ![d].pc = IF listeners = <<>> THEN "done" ELSE "joining"]
             /\ ready' = IF listeners = <<>> THEN Tail(ready)
                         ELSE Append(Tail(ready), Handle("puts", d, 0))
             /\ bcast' = [bcast EXCEPT ![d] = listeners]
             /\ pendingAt' = [pendingAt EXCEPT ![d] = WrittenAndWaiting]
             /\ procEpoch' = [procEpoch EXCEPT ![d] = epoch]
  /\ UNCHANGED <<codecVars, conn, calls, unsub, events, listeners, queue, shut, owner, task, gf, dgs, written, recv,
                 failedPut, epoch>>

\* A slip: the new item is put at the head of the queue.
put_front(items, d) == <<d>> \o items

\* Queue.put on a queue without a size limit: the item goes to the end
put_nowait(items, d) == Append(items, d)

\* Queue.put(d) on queue c for every c of cs in turn, as the new state of
\* the queues, the get_frame tasks and the ready queue.  Queue.put raises
\* QueueShutDown on a queue that has been shut down; otherwise it enqueues
\* the item and wakes the getter that waits on the queue.
RECURSIVE put_all(_, _, _)
put_all(cs, d, st) ==
  IF cs = <<>> THEN st
  ELSE LET c == Head(cs)
           t == owner[c]
       IN put_all(Tail(cs), d,
            IF shut[c]
            THEN [st EXCEPT !.failed = @ \cup {<<d, c>>}]
            ELSE IF t # 0 /\ st.gf[t].pc = "getting"
            THEN [st EXCEPT !.queue[c] = put_nowait(@, d), !.recv[c] = Append(@, d),
                            !.gf[t].pc = "woken",
                            !.ready = Append(@, Handle("gf_wakeup", t, 0))]
            ELSE [st EXCEPT !.queue[c] = put_nowait(@, d), !.recv[c] = Append(@, d)])

\* The tasks "l.put(frame)" of one frame (desk.py 63-66).  They were put
\* on the ready queue together, so they run back to back, in the order of
\* the listeners at the time of the broadcast; the TaskGroup then wakes the
\* callback that waits at the end of the block.
RunPuts ==
  /\ Next1("puts")
  /\ LET d == Head(ready).a
         st == put_all(bcast[d], d, [queue |-> queue, recv |-> recv, gf |-> gf,
                                     failed |-> failedPut, ready |-> Tail(ready)])
     IN
     /\ queue' = st.queue
     /\ recv' = st.recv
     /\ gf' = st.gf
     /\ failedPut' = st.failed
     /\ cb' = [cb EXCEPT ![d].err = \E c \in Chans : <<d, c>> \in st.failed]
     /\ ready' = Append(st.ready, Handle("cb_wakeup", d, 0))
  /\ UNCHANGED <<codecVars, conn, calls, unsub, events, listeners, connection_cache, shut, owner, task, dgs, written,
                 bcast, pendingAt, epoch, procEpoch>>

\* _data_callback resumed at the end of the TaskGroup block (desk.py 63,
\* 49): it returns, or the exceptions of the put tasks are raised out of
\* it as an ExceptionGroup.
RunCbWakeup ==
  /\ Next1("cb_wakeup")
  /\ LET d == Head(ready).a IN
     cb' = [cb EXCEPT ![d].pc = IF cb[d].err THEN "raised" ELSE "done"]
  /\ ready' = Tail(ready)
  /\ UNCHANGED <<codecVars, conn, calls, unsub, events, listeners, connection_cache, queue, shut, owner, task, gf, dgs,
                 written, bcast, recv, failedPut, pendingAt, epoch, procEpoch>>

\* A slip in _disconnect_callback: the cache is left as it is.
cache_kept == connection_cache

\* _disconnect_callback: self._connection_cache = {} (desk.py 54)
cache_cleared == [k \in Commands |-> 0]

\* A slip in _disconnect_callback: the listeners are dropped with the cache.
disconnect_callback_drops_listeners ==
  [connection_cache |-> cache_cleared, listeners |-> <<>>]

\* _disconnect_callback (desk.py 51-54), as the cache and the listeners it
\* leaves: it assigns the cache and touches nothing else
disconnect_callback ==
  [connection_cache |-> cache_cleared, listeners |-> listeners]

\* The transport reports the loss of the connection: _disconnect_callback
\* (desk.py 51-54), called synchronously.
Disconnect ==
  /\ Happens
  /\ conn \notin {"new", "connecting"}
  /\ connection_cache' = disconnect_callback.connection_cache
  /\ listeners' = disconnect_callback.listeners
  /\ epoch' = epoch + 1
  /\ UNCHANGED <<codecVars, conn, calls, unsub, queue, shut, owner, task, gf, dgs, cb, ready,
                 written, bcast, recv, failedPut, pendingAt, procEpoch>>

\* A caller of subscribe other than get_frame (desk.py 75-80).
Subscribe ==
  /\ Happens
  /\ conn = "connected"
  /\ listeners' = subscribe.listeners
  /\ owner' = Append(owner, 0)
  /\ UNCHANGED <<codecVars, conn, calls, unsub, connection_cache, queue, shut, task, gf, dgs, cb, ready,
                 written, bcast, recv, failedPut, pendingAt, epoch, procEpoch>>

\* list.remove(x) raises ValueError when x is not in the list
remove_raises(c) == c \notin Range(listeners)

\* That caller calls unsubscribe with its queue (desk.py 82-83), which is
\* registered or has been unsubscribed before.  self._listeners.remove
\* raises ValueError for a queue that is not in the list.
Unsubscribe(c) ==
  /\ Happens
  /\ c \in 1 .. Len(owner)
  /\ owner[c] = 0
  /\ IF remove_raises(c)
     THEN /\ unsub' = "ValueError"
          /\ UNCHANGED listeners
     ELSE /\ unsub' = "returned"
          /\ listeners' = unsubscribe(c)
  /\ UNCHANGED <<codecVars, conn, calls, connection_cache, queue, shut, owner, task, gf, dgs, cb, ready,
                 written, bcast, recv, failedPut, pendingAt, epoch, procEpoch>>

\* The caller of a query cancels the query task while it is suspended (a
\* deadline such as asyncio.wait_for does this).  In the write, the write
\* is cancelled and the query ends; the get_frame task it created goes on.
\* In "await query_task" (desk.py 120), the cancellation is passed on to the
\* get_frame task, which receives CancelledError at "await q.get()".
Cancel(t) ==
  /\ Happens
  /\ ~gf[t].cancel
  /\ \/ /\ task[t].pc = "writing"
        /\ task' = [task EXCEPT ![t].pc = "written", ![t].write = "cancelled"]
        /\ ready' = Append(ready, Handle("query_wakeup", t, 0))
        /\ UNCHANGED gf
     \/ /\ task[t].pc = "awaiting"
        /\ gf[t].pc = "getting"
        /\ gf' = [gf EXCEPT ![t].pc = "woken", ![t].cancel = TRUE]
        /\ ready' = Append(ready, Handle("gf_wakeup", t, 0))
        /\ UNCHANGED task
     \/ /\ task[t].pc = "awaiting"
        /\ gf[t].pc = "woken"
        /\ gf' = [gf EXCEPT ![t].cancel = TRUE]
        /\ UNCHANGED <<task, ready>>
  /\ UNCHANGED <<codecVars, conn, calls, unsub, listeners, connection_cache, queue, shut, owner, dgs, cb,
                 written, bcast, recv, failedPut, pendingAt, epoch, procEpoch>>

(***************************************************************************)
(* connect (desk.py 125-128), run by the caller before anything else.      *)
(***************************************************************************)
\* A slip in wake: the settings request is sent instead of the wake frame.
wake_frame_settings == Frame(SETTINGS, <<>>)

\* wake: Frame(command=DeskType.BLE_WAKE) (desk.py 123)
wake_frame == Frame(BLE_WAKE, <<>>)

\* connect() is called: it starts "await self._client.connect()".
Connect ==
  /\ conn = "new"
  /\ conn' = "connecting"
  /\ calls' = Append(calls, "connect")
  /\ UNCHANGED <<codecVars, events, unsub, listeners, connection_cache, queue, shut, owner, task,
                 gf, dgs, cb, ready, written, bcast, recv, failedPut, pendingAt, epoch, procEpoch>>

\* The transport is connected; connect goes on to "await
\* self._client.start_notify(desk_attribute_read, self._data_callback)".
TransportConnected ==
  /\ conn = "connecting"
  /\ conn' = "subscribing"
  /\ calls' = Append(calls, "start_notify")
  /\ UNCHANGED <<codecVars, events, unsub, listeners, connection_cache, queue, shut, owner, task,
                 gf, dgs, cb, ready, written, bcast, recv, failedPut, pendingAt, epoch, procEpoch>>

\* start_notify has registered the callback and completes; connect is
\* made ready again.
NotifyStarted ==
  /\ conn = "subscribing"
  /\ conn' = "hooked"
  /\ ready' = Append(ready, Handle("connect", 0, 0))
  /\ UNCHANGED <<codecVars, events, calls, unsub, listeners, connection_cache, queue, shut, owner,
                 task, gf, dgs, cb, written, bcast, recv, failedPut, pendingAt, epoch, procEpoch>>

\* connect resumed: "await self.wake()", that is send_frame of the wake
\* frame (desk.py 88-94), up to the suspension in the write.
RunConnect ==
  /\ Next1("connect")
  /\ conn' = "waking"
  /\ calls' = Append(calls, "write_gatt_char")
  /\ written' = Append(written, [t |-> 0, data |-> to_bytes(wake_frame).bytes])
  /\ ready' = Tail(ready)
  /\ UNCHANGED <<codecVars, events, unsub, listeners, connection_cache, queue, shut, owner,
                 task, gf, dgs, cb, bcast, recv, failedPut, pendingAt, epoch, procEpoch>>

\* The write of the wake frame completes and connect returns.
WakeWritten ==
  /\ conn = "waking"
  /\ conn' = "connected"
  /\ UNCHANGED <<codecVars, events, calls, unsub, listeners, connection_cache, queue, shut, owner,
                 task, gf, dgs, cb, ready, written, bcast, recv, failedPut, pendingAt, epoch,
                 procEpoch>>

Init == CodecIdle /\ SessionInit

Next ==
  \/ Connect
  \/ TransportConnected
  \/ NotifyStarted
  \/ RunConnect
  \/ WakeWritten
  \/ \E t \in Tasks, q \in Calls : CallQuery(t, q.send, q.receive, q.from_cache)
  \/ RunQuery
  \/ \E t \in Tasks, outcome \in {"ok", "error"} : WriteComplete(t, outcome)
  \/ RunQueryWakeup
  \/ RunGetFrame
  \/ RunGetFrameWakeup
  \/ \E n \in Notifications : Notify(n)
  \/ RunDataCallback
  \/ RunPuts
  \/ RunCbWakeup
  \/ Disconnect
  \/ Subscribe
  \/ \E c \in Chans : Unsubscribe(c)
  \/ \E t \in Tasks : Cancel(t)

Spec == Init /\ [][Next]_vars


(***************************************************************************)
(* The inbound path alone: datagrams are notified to a desk that has       *)
(* listeners registered by subscribe() and no query running.  Among the    *)
(* datagrams are well-formed ones that carry the address of the desk.      *)
(***************************************************************************)
GotoHeightDg == <<241, 241, 27, 2, 2, 238, 13, 126>>

InboundNotifications ==
  {[sender |-> desk_attribute_read, data |-> b] :
     b \in {Height750, UnitsMM, WakeDg, GotoHeightDg, TooShortDg}}
  \cup {[sender |-> desk_attribute_write, data |-> Height750]}

InboundNext ==
  \/ Connect \/ TransportConnected \/ NotifyStarted \/ RunConnect \/ WakeWritten
  \/ \E n \in InboundNotifications : Notify(n)
  \/ RunDataCallback
  \/ RunPuts
  \/ RunCbWakeup
  \/ Subscribe
  \/ Disconnect

SpecInbound == Init /\ [][InboundNext]_vars


(***************************************************************************)
(* The operations built on query and send_frame (desk.py 141-168), one     *)
(* call at a time on a connected desk.  The query inside get_units is      *)
(* followed as one caller sees it: answered from the cache, or the request *)
(* written and the next UNITS frame the desk sends returned (and cached by *)
(* _valid_frame_callback on its way).  api.start is the number of writes   *)
(* started when the operation was called, api.seen the number of datagrams *)
(* received by then.                                                       *)
(***************************************************************************)
ApiUnitsParams == {<<>>, <<0>>, <<1>>, <<2>>, <<255>>}
ApiUnitsFrames == {Frame(UNITS, p) : p \in ApiUnitsParams}
ApiMillimetres == {0, 1, 25, 26, 255, 256, 750, 1100, 5000}

\* the methods of class Blesk
BleskOperations ==
  {"subscribe", "unsubscribe", "send_frame", "get_frame", "query", "wake",
   "connect", "disconnect", "get_units", "get_height_mm", "goto_mm", "goto_preset"}

\* what the api variables leave alone in every step
apiFrame == <<cframe, cbytes, cback, cpc, hgt, conn, calls, unsub, listeners, queue,
              shut, owner, task, gf, cb, ready, bcast, recv, failedPut, pendingAt,
              epoch, procEpoch>>

ApiFree == conn = "connected" /\ api.pc \in {"idle", "done", "failed"}

\* A UNITS frame is notified while no operation runs: _data_callback
\* decodes it and _valid_frame_callback caches it; there is no listener.
ApiReceived(f) ==
  /\ Happens
  /\ ApiFree
  /\ dgs' = Append(dgs, [sender |-> desk_attribute_read, data |-> to_bytes(f).bytes])
  /\ connection_cache' = cache_store(f, Len(dgs) + 1)
  /\ UNCHANGED <<apiFrame, api, written>>

\* get_units() is called and reaches its query (desk.py 142)
CallGetUnits ==
  /\ Happens
  /\ ApiFree
  /\ api' = [NoApi EXCEPT !.op = "get_units", !.pc = "query", !.start = Len(written), !.seen = Len(dgs)]
  /\ UNCHANGED <<apiFrame, dgs, connection_cache, written>>

\* goto_mm(mm) is called and reaches get_units (desk.py 158)
CallGotoMm(mm) ==
  /\ Happens
  /\ ApiFree
  /\ api' = [NoApi EXCEPT !.op = "goto_mm", !.arg = mm, !.pc = "query",
                          !.start = Len(written), !.seen = Len(dgs)]
  /\ UNCHANGED <<apiFrame, dgs, connection_cache, written>>

\* query(send=Frame(SETTINGS), receive=UNITS) answers from the cache
ApiQueryCached ==
  /\ api.pc = "query"
  /\ cache_hit([from_cache |-> TRUE, receive |-> UNITS])
  /\ api' = [api EXCEPT !.pc = "units", !.frame = connection_cache[UNITS]]
  /\ UNCHANGED <<apiFrame, events, dgs, connection_cache, written>>

\* query finds no UNITS frame in the cache and writes the request
ApiQuerySend ==
  /\ api.pc = "query"
  /\ ~cache_hit([from_cache |-> TRUE, receive |-> UNITS])
  /\ written' = Append(written, [t |-> 0, data |-> to_bytes(Frame(SETTINGS, <<>>)).bytes])
  /\ api' = [api EXCEPT !.pc = "waiting"]
  /\ UNCHANGED <<apiFrame, events, dgs, connection_cache>>

\* the desk answers with a UNITS frame: it is cached and get_frame
\* returns it to query
ApiQueryAnswer(f) ==
  /\ Happens
  /\ api.pc = "waiting"
  /\ dgs' = Append(dgs, [sender |-> desk_attribute_read, data |-> to_bytes(f).bytes])
  /\ connection_cache' = cache_store(f, Len(dgs) + 1)
  /\ api' = [api EXCEPT !.pc = "units", !.frame = Len(dgs) + 1]
  /\ UNCHANGED <<apiFrame, written>>

\* A slip in goto_mm: the millimetres are encoded whatever the unit.
goto_mm_params_never_converts(mm, units) == encode(HeightMM(mm))

\* the params goto_mm sends (desk.py 160-163)
goto_mm_params(mm, units) ==
  IF units = Units_MM THEN encode(HeightMM(mm)) ELSE encode(as_in(HeightMM(mm)))

\* get_units after its query: u = Units(frame.params[0]) (desk.py 144);
\* goto_mm goes on to send_frame (desk.py 160-163).  An empty params raises
\* IndexError, an unknown value ValueError; either ends the operation.
ApiUnits ==
  /\ api.pc = "units"
  /\ LET frame == FrameOf(api.frame)
         u == Units(frame.params[1])
     IN IF frame.params = <<>>
        THEN /\ api' = [api EXCEPT !.pc = "failed", !.err = "IndexError"]
             /\ UNCHANGED written
        ELSE IF ~u.ok
        THEN /\ api' = [api EXCEPT !.pc = "failed", !.err = u.err]
             /\ UNCHANGED written
        ELSE IF api.op = "get_units"
        THEN /\ api' = [api EXCEPT !.pc = "done", !.result = u.unit]
             /\ UNCHANGED written
        ELSE /\ api' = [api EXCEPT !.pc = "done", !.result = u.unit]
             /\ written' = Append(written,
                    [t |-> 0,
                     data |-> to_bytes(Frame(GOTO_HEIGHT,
                                             goto_mm_params(api.arg, u.unit))).bytes])
  /\ UNCHANGED <<apiFrame, events, dgs, connection_cache>>

\* goto_preset(p): send_frame(Frame(command=PresetDict[p].goto))
\* (desk.py 165-168)
CallGotoPreset(p) ==
  /\ Happens
  /\ ApiFree
  /\ api' = [NoApi EXCEPT !.op = "goto_preset", !.arg = p, !.pc = "done",
                          !.start = Len(written), !.seen = Len(dgs)]
  /\ written' = Append(written,
                       [t |-> 0, data |-> to_bytes(Frame(PresetDict_goto(p), <<>>)).bytes])
  /\ UNCHANGED <<apiFrame, dgs, connection_cache>>

\* dev.get_preset_mm(p), as cli.py 196 calls it: class Blesk has no such
\* attribute, and the lookup raises AttributeError.
CallGetPresetMm(p) ==
  /\ Happens
  /\ ApiFree
  /\ "get_preset_mm" \notin BleskOperations
  /\ api' = [NoApi EXCEPT !.op = "get_preset_mm", !.arg = p, !.pc = "failed",
                          !.err = "AttributeError", !.start = Len(written), !.seen = Len(dgs)]
  /\ UNCHANGED <<apiFrame, dgs, connection_cache, written>>

ApiNext ==
  \/ Connect \/ TransportConnected \/ NotifyStarted \/ RunConnect \/ WakeWritten
  \/ \E f \in ApiUnitsFrames : ApiReceived(f)
  \/ CallGetUnits
  \/ \E mm \in ApiMillimetres : CallGotoMm(mm)
  \/ ApiQueryCached
  \/ ApiQuerySend
  \/ \E f \in ApiUnitsFrames : ApiQueryAnswer(f)
  \/ ApiUnits
  \/ \E p \in Preset : CallGotoPreset(p)
  \/ \E p \in Preset : CallGetPresetMm(p)

SpecApi == Init /\ [][ApiNext]_vars


(***************************************************************************)
(* get_height_mm (desk.py 148-155) on the session engine: it creates the   *)
(* task of get_units, which is query 1, and the task of the height query,  *)
(* query 2, and returns when both have ended.                              *)
(***************************************************************************)
UnitsINDg == <<242, 242, 14, 1, 1, 16, 126>>
Height305 == <<242, 242, 1, 2, 1, 49, 53, 126>>

HeightMmNotifications ==
  {[sender |-> desk_attribute_read, data |-> b] :
     b \in {UnitsMM, UnitsINDg, Height750, Height305}}

\* the two create_task calls of get_height_mm (desk.py 149-150); api.arg is
\* the number of entries the cache holds at the call
CallGetHeightMm ==
  /\ Happens
  /\ conn = "connected"
  /\ api.pc = "idle"
  /\ task[1].pc = "idle" /\ task[2].pc = "idle"
  /\ task' = [task EXCEPT
       ![1] = [NoTask EXCEPT !.pc = "scheduled", !.send = Frame(SETTINGS, <<>>),
                             !.receive = UNITS, !.from_cache = TRUE],
       ![2] = [NoTask EXCEPT !.pc = "scheduled", !.send = Frame(BLE_WAKE, <<>>),
                             !.receive = HEIGHT, !.from_cache = TRUE]]
  /\ ready' = ready \o <<Handle("query", 1, 0), Handle("query", 2, 0)>>
  /\ api' = [NoApi EXCEPT !.op = "get_height_mm", !.pc = "awaiting",
                          !.start = Len(written), !.seen = Len(dgs),
                          !.arg = Cardinality({k \in Commands : connection_cache[k] # 0})]
  /\ UNCHANGED <<cframe, cbytes, cback, cpc, hgt, conn, calls, unsub, listeners,
                 connection_cache, queue, shut, owner, gf, dgs, cb, written, bcast, recv,
                 failedPut, pendingAt, epoch, procEpoch>>

\* HeightData(frame.params[0:2]).decode_as(units).as_mm.as_float
\* (desk.py 155)
height_mm(frame, units) == as_float(as_mm(decode_as(SubSeq(frame.params, 1, 2), units)))

\* both tasks have ended: get_units gives Units(frame.params[0]) and
\* get_height_mm returns the height (desk.py 144, 152-155)
ReturnHeightMm ==
  /\ api.op = "get_height_mm" /\ api.pc = "awaiting"
  /\ task[1].pc = "done" /\ task[2].pc = "done"
  /\ LET u == Units(FrameOf(task[1].result).params[1])
     IN api' = IF u.ok
               THEN [api EXCEPT !.pc = "done",
                                !.result = height_mm(FrameOf(task[2].result), u.unit).value]
               ELSE [api EXCEPT !.pc = "failed", !.err = u.err]
  /\ UNCHANGED <<cframe, cbytes, cback, cpc, hgt, sessionVars>>

GetHeightNext ==
  \/ Connect \/ TransportConnected \/ NotifyStarted \/ RunConnect \/ WakeWritten
  \/ CallGetHeightMm
  \/ RunQuery
  \/ \E t \in {1, 2} : WriteComplete(t, "ok")
  \/ RunQueryWakeup
  \/ RunGetFrame
  \/ RunGetFrameWakeup
  \/ \E n \in HeightMmNotifications : Notify(n)
  \/ RunDataCallback
  \/ RunPuts
  \/ RunCbWakeup
  \/ ReturnHeightMm

SpecGetHeight == Init /\ [][GetHeightNext]_vars


(***************************************************************************)
(* Waits under fair scheduling.  Queries that wait for UNITS, listeners    *)
(* registered by subscribe() whose queue nobody reads, and UNITS and       *)
(* HEIGHT frames notified; nothing is cancelled.  The event loop runs      *)
(* every handle it has on its ready queue: RunStep is weakly fair.  The    *)
(* callers and the desk owe nothing.                                       *)
(***************************************************************************)
WaitNotifications ==
  {[sender |-> desk_attribute_read, data |-> b] : b \in {UnitsMM, Height750}}

RunStep ==
  \/ RunConnect
  \/ RunQuery
  \/ RunQueryWakeup
  \/ RunGetFrame
  \/ RunGetFrameWakeup
  \/ RunDataCallback
  \/ RunPuts
  \/ RunCbWakeup

WaitNext ==
  \/ Connect \/ TransportConnected \/ NotifyStarted \/ WakeWritten
  \/ \E t \in Tasks : CallQuery(t, Frame(SETTINGS, <<>>), UNITS, FALSE)
  \/ \E t \in Tasks : WriteComplete(t, "ok")
  \/ \E n \in WaitNotifications : Notify(n)
  \/ Subscribe
  \/ RunStep

SpecWait == Init /\ [][WaitNext]_vars /\ WF_vars(RunStep)


(***************************************************************************)
(* Properties.                                                             *)
(***************************************************************************)
\* the writes query t has started
WritesOf(t) == {i \in 1 .. Len(written) : written[i].t = t}

\* the datagrams whose callback has run its first step
Processed(d) == d \in 1 .. Len(dgs) /\ cb[d].pc \notin {"none", "scheduled"}

\* the step in which query t runs up to its first suspension
QueryStep(t) == task[t].pc = "scheduled" /\ task'[t].pc # "scheduled"

\* the step in which the callback of datagram d runs up to its first suspension
DataStep(d) == d \in 1 .. Len(dgs) /\ cb[d].pc = "scheduled" /\ cb'[d].pc # "scheduled"

\* the valid frames of kind k cached since the last disconnect
CachedSince(k) ==
  {d \in 1 .. Len(dgs) : Processed(d) /\ Valid(d) /\ FrameOf(d).command = k
                         /\ procEpoch[d] = epoch}

Max(S) == CHOOSE x \in S : \A y \in S : y <= x

\* C1: for every frame whose command is in one of the two command tables
\* and whose params have 0..6 bytes, to_bytes succeeds, its first two bytes
\* are the address derived from the command, and from_bytes of the result
\* gives back a frame with the same command, params and address.
C1_FrameRoundTrip ==
  /\ (cpc # "off" /\ cpc # "frame" /\ Len(cframe.params) <= maximum_param_length) =>
       /\ cbytes.ok
       /\ SubSeq(cbytes.bytes, 1, 2) = address(cframe)
  /\ cpc = "decoded" =>
       /\ cback.ok
       /\ cback.frame.command = cframe.command
       /\ cback.frame.params = cframe.params
       /\ address(cback.frame) = address(cframe)

C1_Witness ==
  /\ cpc = "decoded"
  /\ cback.ok
  /\ cframe.command = HostType(23)
  /\ cframe.params = <<0, 126, 255, 126, 255, 255>>

\* C2: whenever the write of a query's request has started, the query's
\* waiter has registered its channel; and every frame of the awaited kind
\* that is broadcast while the write has started and the wait has not ended
\* is broadcast to that channel.
C2_RegisteredBeforeWrite ==
  /\ \A t \in Tasks : WritesOf(t) # {} => gf[t].chan # 0
  /\ \A d \in Dgs : \A t \in pendingAt[d] :
       FrameOf(d).command = task[t].receive => gf[t].chan \in Range(bcast[d])

\* C3: a channel receives a frame at most once, receives only frames that
\* were broadcast while it was registered, and has received every frame
\* that was broadcast while it was registered once the processing of that
\* frame has ended.
C3_EveryBroadcastReceivedOnce ==
  \A c \in 1 .. Len(owner) :
    /\ \A i, j \in 1 .. Len(recv[c]) : recv[c][i] = recv[c][j] => i = j
    /\ \A i \in 1 .. Len(recv[c]) : c \in Range(bcast[recv[c][i]])
    /\ \A d \in 1 .. Len(dgs) :
         (cb[d].pc \in {"done", "raised"} /\ c \in Range(bcast[d])) => d \in Range(recv[c])

\* C4: a query with from_cache set, for a kind the cache holds, ends in its
\* first step, without suspending: its result is the cached frame, which is
\* the last frame of that kind cached on this connection, nothing is
\* written to the transport and no waiter or channel is created.
C4_CacheHitReturnsAtOnce ==
  [][\A t \in Tasks :
       (QueryStep(t) /\ task[t].from_cache /\ connection_cache[task[t].receive] # 0) =>
         /\ task'[t].pc = "done"
         /\ task'[t].result = connection_cache[task[t].receive]
         /\ task'[t].result = Max(CachedSince(task[t].receive))
         /\ written' = written
         /\ listeners' = listeners
         /\ gf' = gf
         /\ owner' = owner]_vars

C4_Witness ==
  \E t \in Tasks :
    /\ task[t].pc = "done" /\ task[t].path = "cache"
    /\ task[t].result # 0 /\ FrameOf(task[t].result).command = task[t].receive
    /\ WritesOf(t) = {}
    /\ gf[t].pc = "none"

\* C5: a query that does not answer from the cache starts at most one
\* write; when it has returned it has started exactly one, and its result
\* is a frame of the awaited kind that was broadcast to its channel: the
\* first such frame the channel received.
C5_MissWritesOnceReturnsMatch ==
  \A t \in Tasks :
    task[t].path = "wire" =>
      /\ Cardinality(WritesOf(t)) <= 1
      /\ task[t].pc = "done" =>
           /\ Cardinality(WritesOf(t)) = 1
           /\ written[CHOOSE i \in WritesOf(t) : TRUE].data = to_bytes(task[t].send).bytes
           /\ task[t].result \in 1 .. Len(dgs)
           /\ Valid(task[t].result)
           /\ FrameOf(task[t].result).command = task[t].receive
           /\ gf[t].chan \in Range(bcast[task[t].result])
           /\ \E i \in 1 .. Len(recv[gf[t].chan]) :
                /\ recv[gf[t].chan][i] = task[t].result
                /\ \A j \in 1 .. i - 1 :
                     FrameOf(recv[gf[t].chan][j]).command # task[t].receive

C5_Witness ==
  \E t \in Tasks :
    /\ task[t].pc = "done" /\ task[t].path = "wire"
    /\ Len(recv[gf[t].chan]) = 2
    /\ task[t].result = recv[gf[t].chan][2]

\* a frame of kind k was cached before the last disconnect and none since
StaleOnly(k) ==
  /\ \E d \in 1 .. Len(dgs) : /\ Processed(d) /\ Valid(d) /\ FrameOf(d).command = k
                              /\ procEpoch[d] < epoch
  /\ CachedSince(k) = {}

C7_UndecodableIsDropped ==
  [][\A d \in Dgs :
       /\ (DataStep(d) /\ dgs[d].sender = desk_attribute_read /\ ~from_bytes(dgs[d].data).ok) =>
            /\ cb'[d].pc = "dropped"
            /\ connection_cache' = connection_cache
            /\ queue' = queue /\ recv' = recv /\ bcast' = bcast
            /\ listeners' = listeners
            /\ ready' = Tail(ready)
       /\ (DataStep(d) /\ Valid(d) /\ \E e \in 1 .. d - 1 : cb[e].pc = "dropped") =>
            /\ connection_cache'[FrameOf(d).command] = d
            /\ bcast'[d] = listeners]_vars

C7_Witness ==
  /\ Len(dgs) = 2
  /\ Len(dgs[2].data) < 4
  /\ cb[2].pc = "dropped"
  /\ connection_cache[HEIGHT] = 1
  /\ listeners # <<>>

\* C8: the step that processes a valid frame of kind k stores that frame
\* under k, whatever was stored there, and leaves every other entry of the
\* cache as it was.
C8_CacheUpsert ==
  [][\A d \in Dgs :
       (DataStep(d) /\ Valid(d)) =>
         /\ connection_cache'[FrameOf(d).command] = d
         /\ \A k \in Commands \ {FrameOf(d).command} :
              connection_cache'[k] = connection_cache[k]]_vars

C8_Witness ==
  /\ Len(dgs) = 3
  /\ \A d \in 1 .. 3 : dgs[d].sender = desk_attribute_read
  /\ dgs[1].data = UnitsMM /\ dgs[2].data = Height750 /\ dgs[3].data = Height750
  /\ cb[2].pc = "done"
  /\ connection_cache[HEIGHT] = 3
  /\ connection_cache[UNITS] = 1

\* the frame of datagram d has been cached and enqueued on every channel
\* it was broadcast to, or d was dropped
Delivered(d) ==
  \/ cb[d].pc \in {"ignored", "dropped", "done", "raised"}
  \/ cb[d].pc = "joining" /\ \A i \in 1 .. Len(ready) : ready[i] # Handle("puts", d, 0)

\* C9: no step of the processing of a datagram happens before every
\* datagram that arrived earlier has been cached and enqueued on all
\* registered channels.
C9_OneDatagramAtATime ==
  \A a, b \in 1 .. Len(dgs) : (a < b /\ Processed(b)) => Delivered(a)

\* C10: once a wait has ended, by a match, an error or a cancellation, its
\* channel is not registered.
C10_EndedWaitIsUnsubscribed ==
  \A t \in Tasks :
    (gf[t].pc \in {"done", "cancelled"} /\ gf[t].chan # 0) => gf[t].chan \notin Range(listeners)

\* C11: no call of unsubscribe ends with an error, whether its queue is
\* registered or not (a second call with the same queue included); a call
\* with a queue that is not registered leaves the listeners as they are.
C11_UnsubscribeIdempotent == unsub # "ValueError"

\* no wait takes a frame off the channel of another: a channel nobody
\* reads from still holds all it received, and the channel of a waiter
\* that was woken and has not run yet still holds the frame that woke it
ChannelsIsolated ==
  \A c \in 1 .. Len(owner) :
    /\ owner[c] = 0 => queue[c] = recv[c]
    /\ (owner[c] # 0 /\ gf[owner[c]].pc = "woken" /\ ~gf[owner[c]].cancel) => queue[c] # <<>>

\* a wait that has returned returned a frame of its kind that was broadcast
\* to its own channel
ResolvedFromOwnChannel ==
  \A t \in Tasks :
    gf[t].pc = "done" =>
      /\ FrameOf(gf[t].result).command = task[t].receive
      /\ gf[t].chan \in Range(bcast[gf[t].result])

\* C12: when two or more waits were pending as a frame of kind k was
\* broadcast (their requests written, the waits not ended), then once the
\* processing of the frame has ended every one of them that waits for k and
\* was not cancelled has returned, with that frame or with an earlier one; each wait returns a frame taken from its own
\* channel, and no wait removes a frame from the channel of another.
C12_ConcurrentWaitsIsolated ==
  /\ \A d \in 1 .. Len(dgs) : \A t \in pendingAt[d] :
       (Cardinality(pendingAt[d]) >= 2 /\ FrameOf(d).command = task[t].receive
        /\ cb[d].pc \in {"done", "raised"} /\ ~gf[t].cancel) =>
         (gf[t].pc = "done" /\ gf[t].result <= d)
  /\ ResolvedFromOwnChannel
  /\ ChannelsIsolated

\* the frames of the kind get_frame task t waits for that were broadcast
\* while its channel was registered
MatchesSince(t) ==
  {d \in 1 .. Len(dgs) : /\ gf[t].chan \in Range(bcast[d])
                          /\ FrameOf(d).command = task[t].receive}

\* C13: a get_frame that has returned returned the first frame of its kind
\* that was broadcast after it subscribed, and that frame's command is the
\* kind; while it waits, its channel has received no frame of the kind, and
\* the frames of other kinds it received have been taken off the queue.
C13_GetFrameFirstMatch ==
  \A t \in Tasks :
    /\ gf[t].pc = "done" =>
         /\ gf[t].result \in MatchesSince(t)
         /\ \A d \in MatchesSince(t) : gf[t].result <= d
         /\ FrameOf(gf[t].result).command = task[t].receive
    /\ gf[t].pc = "getting" =>
         /\ queue[gf[t].chan] = <<>>
         /\ \A i \in 1 .. Len(recv[gf[t].chan]) :
              FrameOf(recv[gf[t].chan][i]).command # task[t].receive

C13_Witness ==
  \E t \in Tasks :
    /\ gf[t].pc = "done"
    /\ gf[t].result = 2
    /\ gf[t].chan \in Range(bcast[1])
    /\ FrameOf(1).command = UNITS /\ task[t].receive = HEIGHT

\* C14: on every channel the frames are enqueued, and wait in the queue to
\* be dequeued from its head, in the order in which their datagrams
\* arrived.
C14_ChannelKeepsArrivalOrder ==
  \A c \in 1 .. Len(owner) :
    /\ \A i, j \in 1 .. Len(recv[c]) : i < j => recv[c][i] < recv[c][j]
    /\ \A i, j \in 1 .. Len(queue[c]) : i < j => queue[c][i] < queue[c][j]

C14_Witness ==
  \E c \in 1 .. Len(owner) :
    /\ owner[c] # 0
    /\ queue[c] = <<1, 2>>
    /\ gf[owner[c]].pc = "woken"

\* C15: connect calls the transport in this order: connect, start_notify
\* (which registers the notification callback), then one write; that write
\* is the wake frame, device command 0xB2 with no params, and nothing is
\* written before the callback is registered; connect writes nothing else.
C15_ConnectOrder ==
  /\ \E n \in 0 .. 3 : calls = SubSeq(<<"connect", "start_notify", "write_gatt_char">>, 1, n)
  /\ conn \in {"new", "connecting", "subscribing", "hooked"} => written = <<>>
  /\ conn \in {"waking", "connected"} =>
       /\ calls = <<"connect", "start_notify", "write_gatt_char">>
       /\ written[1] = [t |-> 0, data |-> <<241, 241, 178, 0, 178, 126>>]
       /\ WritesOf(0) = {1}
  /\ conn = "waking" => Len(written) = 1

C15_Witness ==
  /\ conn = "connected"
  /\ Len(written) = 2
  /\ written[1].t = 0 /\ written[2].t # 0
  /\ dgs # <<>>

\* the conditions of from_bytes on a datagram b, each by itself
LengthInBounds(b) == 6 <= Len(b) /\ Len(b) <= 12
DeclaredLengthFits(b) == Len(b) >= 4 /\ b[4] + 6 = Len(b)
Terminated(b) == Len(b) >= 1 /\ b[Len(b)] = 126
ChecksumFits(b) ==
  /\ Len(b) >= 4
  /\ b[Len(b) - 1] = sum([i \in 1 .. Len(b) - 4 |-> b[i + 2]]) % 256
AddressKnown(b) == Len(b) >= 2 /\ <<b[1], b[2]>> \in {<<241, 241>>, <<242, 242>>}
CommandKnown(b) ==
  /\ Len(b) >= 3
  /\ <<b[1], b[2]>> = <<241, 241>> => b[3] \in DeskTypeValues
  /\ <<b[1], b[2]>> # <<241, 241>> => b[3] \in HostTypeValues

\* the condition whose violation an error of from_bytes reports
Reports(err, b) ==
  CASE err = "Message too short" -> Len(b) < 6
    [] err = "Message too long" -> Len(b) > 12
    [] err = "Incorrect message length" -> ~DeclaredLengthFits(b)
    [] err = "Message not terminated correctly" -> ~Terminated(b)
    [] err = "Checksum does not match" -> ~ChecksumFits(b)
    [] err = "not a valid Address" -> ~AddressKnown(b)
    [] err \in {"not a valid DeskType", "not a valid HostType"} -> ~CommandKnown(b)
    [] OTHER -> FALSE

\* C16: from_bytes returns a Frame exactly when the datagram has 6 to 12
\* bytes, byte 3 plus 6 is its length, its last byte is 0x7e, its last but
\* one byte is the sum of bytes 2 .. len-3 modulo 256, bytes 0..1 are f1f1
\* or f2f2 and byte 2 is in the command table of that address; the frame
\* has the command of byte 2 and the params bytes[4 .. len-2]; otherwise
\* it raises the error of a condition that is violated.
C16_DecodeAcceptsExactlyWellFormed ==
  cpc = "parsed" =>
    LET b == cbytes.bytes IN
    /\ cback.ok <=> /\ LengthInBounds(b)
                    /\ DeclaredLengthFits(b)
                    /\ Terminated(b)
                    /\ ChecksumFits(b)
                    /\ AddressKnown(b)
                    /\ CommandKnown(b)
    /\ cback.ok =>
         /\ cback.frame.command.value = b[3]
         /\ address(cback.frame) = <<b[1], b[2]>>
         /\ cback.frame.params = [i \in 1 .. Len(b) - 6 |-> b[i + 4]]
    /\ ~cback.ok => Reports(cback.err, b)

C16_Witness ==
  /\ cpc = "parsed"
  /\ cback.ok
  /\ Len(cbytes.bytes) = 12
  /\ cback.frame.params = <<0, 126, 255, 0, 126, 255>>

\* C17: from_bytes checks in the order length bounds, declared length,
\* terminator, checksum, address, command: the error it raises is that of
\* the first condition in this order that is violated, so every condition
\* before it holds.
C17_ChecksInFixedOrder ==
  (cpc = "parsed" /\ ~cback.ok) =>
    LET b == cbytes.bytes
        err == cback.err
    IN
    /\ err = "Incorrect message length" => LengthInBounds(b)
    /\ err = "Message not terminated correctly" =>
         LengthInBounds(b) /\ DeclaredLengthFits(b)
    /\ err = "Checksum does not match" =>
         LengthInBounds(b) /\ DeclaredLengthFits(b) /\ Terminated(b)
    /\ err = "not a valid Address" =>
         LengthInBounds(b) /\ DeclaredLengthFits(b) /\ Terminated(b) /\ ChecksumFits(b)
    /\ err \in {"not a valid DeskType", "not a valid HostType"} =>
         /\ LengthInBounds(b) /\ DeclaredLengthFits(b) /\ Terminated(b) /\ ChecksumFits(b)
         /\ AddressKnown(b)
    /\ ~LengthInBounds(b) => err \in {"Message too short", "Message too long"}
    /\ (LengthInBounds(b) /\ ~Terminated(b) /\ ~ChecksumFits(b)) =>
         err \in {"Incorrect message length", "Message not terminated correctly"}
    /\ (LengthInBounds(b) /\ ~ChecksumFits(b) /\ ~AddressKnown(b)) =>
         err \in {"Incorrect message length", "Message not terminated correctly",
                  "Checksum does not match"}

C17_Witness ==
  /\ cpc = "parsed"
  /\ cbytes.bytes = <<242, 242, 1, 2, 2, 238, 0, 0>>
  /\ cback = [ok |-> FALSE, err |-> "Message not terminated correctly"]

\* C18: a datagram addressed to the host that is well-formed in everything
\* but its command byte decodes exactly when the command byte is one of
\* 0x01, 0x0e, 0x19, 0x1d, 0x25, 0x26, 0x27, 0x28, 0xb2, and fails with the
\* unknown-command error otherwise.
C18_HostCommandTable ==
  LET b == cbytes.bytes IN
  (/\ cpc = "parsed"
   /\ LengthInBounds(b) /\ DeclaredLengthFits(b) /\ Terminated(b) /\ ChecksumFits(b)
   /\ <<b[1], b[2]>> = <<242, 242>>) =>
    IF b[3] \in {1, 14, 25, 29, 37, 38, 39, 40, 178}
    THEN cback.ok
    ELSE cback = [ok |-> FALSE, err |-> "not a valid HostType"]

\* C19: for a frame with L <= 6 params to_bytes gives 6+L bytes: f1f1 for a
\* device command and f2f2 for a host command, the command code, L, the
\* params, the sum of bytes 2 .. 3+L modulo 256, and 0x7e.
C19_EncodeLayout ==
  (cpc \in {"encoded", "decoded"} /\ Len(cframe.params) <= 6) =>
    LET L == Len(cframe.params)
        b == cbytes.bytes
    IN
    /\ cbytes.ok
    /\ Len(b) = 6 + L
    /\ cframe.command.type = "DeskType" => <<b[1], b[2]>> = <<241, 241>>
    /\ cframe.command.type = "HostType" => <<b[1], b[2]>> = <<242, 242>>
    /\ b[3] = cframe.command.value
    /\ b[4] = L
    /\ \A i \in 1 .. L : b[4 + i] = cframe.params[i]
    /\ b[5 + L] = sum([i \in 1 .. L + 2 |-> b[i + 2]]) % 256
    /\ b[5 + L] \in 0 .. 255
    /\ b[6 + L] = 126

C19_Witness ==
  /\ cpc = "encoded"
  /\ cframe = Frame(HostType(178), <<255, 255>>)
  /\ cbytes.bytes = <<242, 242, 178, 2, 255, 255, 178, 126>>

\* C20: a query whose frame has more than 6 params fails in send_frame
\* with the error of to_bytes and nothing is written for it; nothing longer
\* than 12 bytes is ever written; a query whose write failed has started
\* that one write and no other, and ends with the error of the write.
C20_FailedSendNotRetried ==
  /\ \A t \in Tasks :
       /\ (task[t].path = "wire" /\ Len(task[t].send.params) > 6) =>
            /\ task[t].pc = "failed"
            /\ task[t].err = "Parameter length longer than maximum"
            /\ WritesOf(t) = {}
       /\ task[t].write = "error" =>
            /\ Cardinality(WritesOf(t)) = 1
            /\ task[t].pc \in {"written", "failed"}
            /\ task[t].pc = "failed" => task[t].err = "write failed"
            /\ task[t].result = 0
  /\ \A i \in 1 .. Len(written) : Len(written[i].data) <= 12

C20_Witness ==
  /\ task[1].pc = "failed" /\ task[1].err = "Parameter length longer than maximum"
  /\ task[2].pc = "failed" /\ task[2].err = "write failed"
  /\ Len(written) = 2

\* C22: the height query of get_height_mm, query(Frame(BLE_WAKE), HEIGHT)
\* with from_cache left at its default, returns only after it has written
\* the wake frame, and the frame it returns was processed after that write.
C22_HeightIsLive ==
  \A t \in Tasks :
    (/\ task[t].send = Frame(BLE_WAKE, <<>>) /\ task[t].receive = HEIGHT
     /\ task[t].from_cache /\ task[t].pc = "done") =>
      /\ WritesOf(t) # {}
      /\ t \in pendingAt[task[t].result]

\* C26: a disconnect event leaves the listeners, the queues, the waits and
\* the queries as they are: no wait is completed, failed or woken by it,
\* and nothing is written.
C26_DisconnectLeavesWaits ==
  [][epoch' # epoch =>
       /\ listeners' = listeners
       /\ gf' = gf /\ task' = task
       /\ queue' = queue /\ shut' = shut
       /\ ready' = ready /\ written' = written]_vars

C26_Witness ==
  \E t \in Tasks :
    /\ epoch = 1
    /\ task[t].epoch = 0 /\ task[t].pc = "awaiting"
    /\ gf[t].pc = "getting"
    /\ listeners = <<gf[t].chan>>

\* connect() called a second time on the same instance, after the transport
\* reported a disconnect (desk.py 125-128; also __aenter__, 133-135).  connect
\* tests nothing and resets nothing: __init__ alone empties the cache and
\* the listeners (desk.py 14-20).
Reconnect ==
  /\ Happens
  /\ conn = "connected"
  /\ epoch > 0
  /\ Cardinality({i \in DOMAIN calls : calls[i] = "connect"}) = 1
  /\ conn' = "connecting"
  /\ calls' = Append(calls, "connect")
  /\ UNCHANGED <<codecVars, unsub, listeners, connection_cache, queue, shut, owner, task,
                 gf, dgs, cb, ready, written, bcast, recv, failedPut, pendingAt, epoch, procEpoch>>

NextReconnect == Next \/ Reconnect

SpecReconnect == Init /\ [][NextReconnect]_vars

\* Nothing is left of an earlier connection: no listener, no cached frame.
NoLeftovers ==
  /\ listeners = <<>>
  /\ \A k \in DOMAIN connection_cache : connection_cache[k] = 0

\* C27: an instance connects once: whenever a connection is being
\* established it is the first of the instance, and it starts with no
\* listener and no cached frame of an earlier connection.
C27_SingleUse ==
  conn = "connecting" =>
    /\ Cardinality({i \in DOMAIN calls : calls[i] = "connect"}) = 1
    /\ NoLeftovers

\* C29: a query with from_cache = FALSE never answers from the cache: it
\* writes its request once, and the frame it returns is of the kind it
\* waits for and was processed after the request was written.
C29_BypassReturnsFreshFrame ==
  \A t \in Tasks :
    (task[t].path # "none" /\ ~task[t].from_cache) =>
      /\ task[t].path = "wire"
      /\ Len(task[t].send.params) <= 6 => Cardinality(WritesOf(t)) = 1
      /\ task[t].pc = "done" =>
           /\ FrameOf(task[t].result).command = task[t].receive
           /\ t \in pendingAt[task[t].result]

C29_Witness ==
  \E t \in Tasks :
    /\ ~task[t].from_cache /\ task[t].pc = "done"
    /\ task[t].result = 2
    /\ Valid(1) /\ FrameOf(1).command = task[t].receive
    /\ cb[1].pc = "done" /\ t \notin pendingAt[1]

\* C30: once a query has failed in its transmit step, by the error of
\* to_bytes or by an error of the write, the get_frame task it created is
\* not pending and its channel is not registered.
C30_FailedSendLeavesNoWaiter ==
  \A t \in Tasks :
    task[t].pc = "failed" =>
      /\ gf[t].pc \notin {"scheduled", "getting", "woken"}
      /\ gf[t].chan # 0 => gf[t].chan \notin Range(listeners)

\* C28: decoding two bytes in a unit and encoding the height again in the
\* same unit gives the two bytes back, for every raw value drawn and in
\* particular for 0, 1, 255, 256 and 65535, in millimetres and in inches.
C28_HeightRoundTrip ==
  hgt.pc = "encoded" => hgt.back = hgt.data

C28_Witness ==
  /\ hgt.pc = "encoded" /\ hgt.unit = Units_IN
  /\ hgt.data = <<255, 255>> /\ hgt.value = HeightIn(65535, 10)
  /\ hgt.back = <<255, 255>>

\* C21: get_units obtains a UNITS frame by its query, writing at most the
\* SETTINGS request, and ends by the first parameter byte of that frame:
\* 0 returns millimetres, 1 returns inches, any other byte raises the
\* error of the enum and no unit is returned.
C21_GetUnitsMapping ==
  (api.op = "get_units" /\ api.pc \in {"done", "failed"}) =>
    LET frame == FrameOf(api.frame)
        b == frame.params
    IN /\ frame.command = UNITS
       /\ \A i \in api.start + 1 .. Len(written) :
            /\ i = api.start + 1
            /\ written[i].data = <<241, 241, 7, 0, 7, 126>>
       /\ b # <<>> =>
            /\ b[1] = 0 => api.pc = "done" /\ api.result = Units_MM
            /\ b[1] = 1 => api.pc = "done" /\ api.result = Units_IN
            /\ b[1] \notin {0, 1} =>
                 /\ api.pc = "failed" /\ api.err = "not a valid Units"
                 /\ api.result = "none"

C21_Witness ==
  /\ api.op = "get_units" /\ api.pc = "failed"
  /\ FrameOf(api.frame).params = <<2>>
  /\ Len(written) = api.start + 1

\* C23: when goto_mm(mm) has returned it has written exactly one
\* GOTO_HEIGHT frame, its last write, with two params that are big-endian
\* mm when the UNITS frame it got reports millimetres, and big-endian
\* floor(mm * 0.393701) when it reports inches.
C23_GotoMmEncodesInUnit ==
  (api.op = "goto_mm" /\ api.pc = "done") =>
    LET unit == FrameOf(api.frame).params[1]
        value == IF unit = 0 THEN api.arg ELSE (api.arg * 393701) \div 1000000
        gotos == {i \in api.start + 1 .. Len(written) : written[i].data[3] = 27}
        w == written[Len(written)].data
    IN /\ gotos = {Len(written)}
       /\ Len(w) = 8
       /\ <<w[1], w[2], w[3], w[4]>> = <<241, 241, 27, 2>>
       /\ w[5] * 256 + w[6] = value
       /\ w[7] = (27 + 2 + w[5] + w[6]) % 256 /\ w[8] = 126

C23_Witness ==
  /\ api.op = "goto_mm" /\ api.pc = "done" /\ api.arg = 750
  /\ FrameOf(api.frame).params = <<1>>
  /\ written[Len(written)].data = <<241, 241, 27, 2, 1, 39, 69, 126>>

\* C24: the step of goto_preset(p) starts exactly one write, of the frame
\* with no params and command 0x05, 0x06, 0x27, 0x28 for p = 1, 2, 3, 4;
\* it starts no query task and leaves the cache and the listeners as
\* they are.
C24_GotoPresetOneWrite ==
  [][(api' # api /\ api'.op = "goto_preset") =>
       LET cmd == CASE api'.arg = 1 -> 5 [] api'.arg = 2 -> 6
                    [] api'.arg = 3 -> 39 [] api'.arg = 4 -> 40
       IN /\ api'.pc = "done"
          /\ written' = Append(written, [t |-> 0, data |-> <<241, 241, cmd, 0, cmd, 126>>])
          /\ connection_cache' = connection_cache
          /\ listeners' = listeners
          /\ task' = task /\ gf' = gf /\ ready' = ready]_vars

C24_Witness ==
  /\ api.op = "goto_preset" /\ api.arg = 3 /\ api.pc = "done"
  /\ written[Len(written)].data = <<241, 241, 39, 0, 39, 126>>
  /\ connection_cache[UNITS] # 0

\* C25: a call of get_preset_mm on the engine does not fail for want of
\* the method.
C25_GetPresetMmIsOperation ==
  api.op = "get_preset_mm" => api.err # "AttributeError"

\* the frames a channel holds, and the frames a wait has been given
HeldOrDelivered ==
  {d \in 1 .. Len(dgs) : \/ \E c \in Chans : d \in Range(queue[c])
                          \/ \E t \in Tasks : gf[t].result = d}

\* C31: while a channel holds a frame F of kind k, or a wait has been given
\* it, and no disconnect has happened since F was cached, the cache holds
\* under k the frame F or a frame of kind k that arrived after F.
C31_CacheNotBehindChannel ==
  \A d \in HeldOrDelivered :
    procEpoch[d] = epoch =>
      LET k == FrameOf(d).command
      IN /\ connection_cache[k] # 0
         /\ connection_cache[k] >= d
         /\ FrameOf(connection_cache[k]).command = k

C31_Witness ==
  \E c \in Chans :
    /\ Len(dgs) >= 2
    /\ queue[c] = <<1>> /\ procEpoch[1] = epoch
    /\ Valid(2) /\ FrameOf(2).command = FrameOf(1).command
    /\ connection_cache[FrameOf(1).command] = 2

\* C35: every key of the cache is a host command and the frame stored
\* under it has that command; no datagram that carries the address of the
\* desk is ever the frame of a cache entry.
C35_CacheKeysAreHostKinds ==
  \A k \in Commands :
    connection_cache[k] # 0 =>
      /\ k.type = "HostType"
      /\ FrameOf(connection_cache[k]).command = k
      /\ SubSeq(dgs[connection_cache[k]].data, 1, 2) # AddressDESK

\* C37: the callback of data notified by another sender than the read
\* characteristic ends in its first step: the cache, the listeners and
\* every queue are as before, no put task is created, and the datagram is
\* on no channel.
C37_OtherSenderIgnored ==
  [][\A d \in Dgs :
       (DataStep(d) /\ dgs[d].sender # desk_attribute_read) =>
         /\ cb'[d].pc = "ignored"
         /\ connection_cache' = connection_cache
         /\ listeners' = listeners
         /\ queue' = queue /\ recv' = recv
         /\ bcast'[d] = <<>>
         /\ ready' = Tail(ready)
         /\ \A c \in Chans : d \notin Range(recv[c])]_vars

C37_Witness ==
  \E d \in 1 .. Len(dgs) :
    /\ cb[d].pc = "ignored"
    /\ dgs[d].sender = desk_attribute_write
    /\ from_bytes(dgs[d].data).ok
    /\ listeners # <<>>
    /\ \A k \in Commands : connection_cache[k] = 0

\* C36: a step changes the cache only if it is the first step of the
\* callback of a valid frame, which sets the entry of that frame's command
\* and no other, or a disconnect, which empties it; the steps of subscribe,
\* unsubscribe, send_frame, get_frame and query, on which the other
\* operations are built, leave it as it is.
C36_CacheChangedOnlyInbound ==
  [][connection_cache' # connection_cache =>
       \/ \E d \in Dgs :
            /\ DataStep(d) /\ Valid(d)
            /\ connection_cache' = [connection_cache EXCEPT ![FrameOf(d).command] = d]
       \/ /\ epoch' = epoch + 1
          /\ \A k \in Commands : connection_cache'[k] = 0]_vars

C36_Witness ==
  \E t \in Tasks :
    /\ task[t].pc = "done" /\ task[t].path = "wire"
    /\ gf[t].pc = "done" /\ gf[t].chan \notin Range(listeners)
    /\ connection_cache[task[t].receive] = task[t].result
    /\ \A k \in Commands \ {task[t].receive} : connection_cache[k] = 0

\* C40: no put is ever attempted on a queue that has been shut down, and
\* the callback of a valid frame never ends with an exception.
C40_NoPutOnShutQueue ==
  /\ failedPut = {}
  /\ \A d \in Dgs : cb[d].pc # "raised"

\* C38: reading as_float of a decoded height succeeds, and gives the
\* millimetres of a height in millimetres and the inches of a height in
\* inches.
C38_AsFloatReturnsValue ==
  hgt.pc = "float" =>
    /\ hgt.float.ok
    /\ hgt.float.value = IF hgt.unit = Units_MM THEN hgt.value.mm
                         ELSE [n |-> hgt.value.n, d |-> hgt.value.d]

\* C39: when from_bytes accepts a byte sequence, to_bytes of the frame it
\* returns succeeds and gives the same bytes.
C39_EncodeOfDecodeIsIdentity ==
  cpc = "again" =>
    /\ cback.again.ok
    /\ cback.again.bytes = cbytes.bytes

C39_Witness ==
  /\ cpc = "again" /\ cbytes.damage = 2
  /\ cbytes.bytes = <<242, 242, 1, 0, 1, 126>>
  /\ cback.again.bytes = cbytes.bytes

\* the writes of the operation that runs, as the command bytes written
ApiWrites ==
  [i \in 1 .. Len(written) - api.start |-> written[api.start + i].data[3]]

\* C32: goto_mm writes GOTO_HEIGHT (0x1b) last and only once it holds a
\* UNITS frame.  With a UNITS frame received before the call, and so
\* cached, that is its only write; otherwise it writes the SETTINGS request
\* (0x07) first, writes nothing while it waits, and the UNITS frame it
\* holds when it writes GOTO_HEIGHT was received after the call.
C32_GotoAfterUnitsKnown ==
  api.op = "goto_mm" =>
    LET cachedAtCall == \E d \in 1 .. api.seen : FrameOf(d).command = UNITS
    IN /\ api.pc = "query" => ApiWrites = <<>>
       /\ api.pc = "waiting" => ApiWrites = <<7>> /\ ~cachedAtCall
       /\ api.pc \in {"units", "done", "failed"} =>
            /\ api.frame # 0 /\ FrameOf(api.frame).command = UNITS
            /\ cachedAtCall <=> api.frame <= api.seen
       /\ api.pc \in {"units", "failed"} =>
            ApiWrites = IF cachedAtCall THEN <<>> ELSE <<7>>
       /\ api.pc = "done" =>
            ApiWrites = IF cachedAtCall THEN <<27>> ELSE <<7, 27>>

C32_Witness ==
  /\ api.op = "goto_mm" /\ api.pc = "done"
  /\ api.seen = 0 /\ api.frame = 1
  /\ FrameOf(1).params = <<1>>
  /\ ApiWrites = <<7, 27>>

\* get_height_mm called with nothing received before: once its two tasks
\* have taken their first step, the SETTINGS request and the wake request
\* are both written, whatever has been received.
GetHeightWritesBoth ==
  (/\ api.op = "get_height_mm" /\ api.seen = 0
   /\ task[1].pc # "scheduled" /\ task[2].pc # "scheduled") =>
     /\ Len(written) = api.start + 2
     /\ written[api.start + 1] = [t |-> 1, data |-> <<241, 241, 7, 0, 7, 126>>]
     /\ written[api.start + 2] = [t |-> 2, data |-> <<241, 241, 178, 0, 178, 126>>]

\* when get_height_mm has returned, its value is the two bytes of the
\* HEIGHT frame of query 2 read in the unit of the UNITS frame of query 1:
\* the millimetres, or the tenths of an inch times 10^6 / 393701.
GetHeightResult ==
  (api.op = "get_height_mm" /\ api.pc = "done") =>
    LET u == FrameOf(task[1].result)
        h == FrameOf(task[2].result)
        raw == h.params[1] * 256 + h.params[2]
    IN /\ u.command = UNITS /\ h.command = HEIGHT
       /\ api.result = IF u.params = <<0>> THEN raw
                       ELSE [n |-> raw * 1000000, d |-> 393701]

\* C33: get_height_mm called with nothing received before.  When a UNITS
\* frame and a HEIGHT frame have been handled, each while the request of
\* its query was written and the query had not ended, and nothing is left
\* to run, both fetches have ended and get_height_mm returns or has
\* returned.
C33_CompletesOnceBothReceived ==
  (/\ api.op = "get_height_mm" /\ api.seen = 0
   /\ ready = <<>>
   /\ task[1].pc # "writing" /\ task[2].pc # "writing"
   /\ \E du, dh \in 1 .. Len(dgs) :
        /\ FrameOf(du).command = UNITS /\ 1 \in pendingAt[du]
        /\ FrameOf(dh).command = HEIGHT /\ 2 \in pendingAt[dh]) =>
     task[1].pc = "done" /\ task[2].pc = "done"

\* the valid frames of the kind get_frame t waits for that were broadcast
\* to its queue
MatchesFor(t) ==
  {d \in 1 .. Len(dgs) : /\ gf[t].chan # 0 /\ gf[t].chan \in Range(bcast[d])
                          /\ FrameOf(d).command = task[t].receive}

\* C34: under fair scheduling a get_frame whose queue was registered when
\* a valid frame of its kind was handled eventually returns; a wait ends
\* only with such a frame, so that it stays pending as long as none is
\* received; and the callback of every datagram notified eventually ends,
\* with the frame cached and put on the queue of every listener registered
\* then whose wait has not ended meanwhile, also while a listener leaves its
\* queue unread.
C34_WaitLiveness ==
  /\ \A t \in Tasks : (MatchesFor(t) # {}) ~> (gf[t].pc = "done")
  /\ [](\A t \in Tasks : gf[t].pc \notin {"none", "scheduled", "getting", "woken"} =>
           /\ gf[t].pc = "done"
           /\ gf[t].result \in MatchesFor(t))
  /\ \A d \in Dgs :
       (d <= Len(dgs)) ~>
         (/\ cb[d].pc \in {"done", "raised"}
          /\ connection_cache[FrameOf(d).command] >= d
          /\ \A c \in Range(bcast[d]) : d \in Range(recv[c]) \/ shut[c])

C34_Witness ==
  \E t \in Tasks, c \in Chans :
    /\ gf[t].pc = "done"
    /\ c \in Range(listeners) /\ owner[c] = 0
    /\ gf[t].result \in Range(queue[c])
    /\ cb[gf[t].result].pc = "done"

====
